---- MODULE Spec2Model ----
(***************************************************************************)
(* A model of src/src/LuaSerializer.cpp: the pickle/unpickle codec over    *)
(* Lua values, and the Serialize / Unserialize / Register orchestration    *)
(* around it.                                                              *)
(*                                                                         *)
(* A byte is a string naming it ("A", "0", "LF" for newline, "NUL" for the *)
(* zero byte); a buffer is a sequence of bytes.  A Lua value is a record   *)
(* tagged by its lua_type name.  A Lua number is a double with at most six *)
(* decimals, held as an integer count of millionths, so that "%f" and      *)
(* strtod are computed digit by digit.                                     *)
(***************************************************************************)
EXTENDS Integers, Sequences, FiniteSets, TLC

(***************************************************************************)
(* Bounds of the model.                                                    *)
(***************************************************************************)
MaxTextLen == 2
NumBodies == 11
MaxOverrun == 2
MaxBadLen == 5
MaxWhole == 2000

(***************************************************************************)
(* Bytes and the C library routines the codec calls.                       *)
(***************************************************************************)
NL == "LF"
NUL == "NUL"
OOB == "OOB"
Million == 1000000

DigitSeq == <<"0", "1", "2", "3", "4", "5", "6", "7", "8", "9">>
Digits == {DigitSeq[i] : i \in 1..10}
DigitChar(d) == DigitSeq[d + 1]
DigitVal(c) == CHOOSE d \in 0..9 : DigitSeq[d + 1] = c
OctDigits == {DigitSeq[i] : i \in 1..8}

Max(a, b) == IF a >= b THEN a ELSE b
Abs(n) == IF n < 0 THEN -n ELSE n

\* C conversion of a double to int: truncation toward zero.
TruncToInt(x) == IF x >= 0 THEN x \div Million ELSE -((-x) \div Million)

\* The byte at 1-based index i of memory m; OOB outside the mapped bytes.
At(m, i) == IF i \in 1..Len(m) THEN m[i] ELSE OOB

RECURSIVE DecN(_)
DecN(n) == IF n < 10 THEN <<DigitChar(n)>> ELSE DecN(n \div 10) \o <<DigitChar(n % 10)>>

\* printf("%d", n)
Dec(n) == IF n < 0 THEN <<"-">> \o DecN(-n) ELSE DecN(n)

Pow10(k) == CASE k = 0 -> 1 [] k = 1 -> 10 [] k = 2 -> 100 [] k = 3 -> 1000
              [] k = 4 -> 10000 [] k = 5 -> 100000 [] OTHER -> Million

\* printf("%f", x): sign, integer part, a point and exactly six decimals.
FmtF(x) ==
  LET a == Abs(x)
      frac == [i \in 1..6 |-> DigitChar((a \div Pow10(6 - i)) % 10)]
  IN (IF x < 0 THEN <<"-">> ELSE <<>>) \o DecN(a \div Million) \o <<".">> \o frac

\* isspace(): of the bytes of the model only the newline is white space.
RECURSIVE SkipSpace(_, _)
SkipSpace(m, i) == IF At(m, i) = NL THEN SkipSpace(m, i + 1) ELSE i

\* The index of the first byte at or after i that is not in the set ds.
RECURSIVE RunEnd(_, _, _)
RunEnd(m, i, ds) == IF At(m, i) \in ds THEN RunEnd(m, i + 1, ds) ELSE i

\* The value of the digits m[i..j-1] in the given base (0 when empty).
RECURSIVE DigitsVal(_, _, _, _)
DigitsVal(m, i, j, base) ==
  IF j <= i THEN 0 ELSE DigitsVal(m, i, j - 1, base) * base + DigitVal(m[j - 1])

\* The six decimals m[ie+1..fe-1] as millionths (digits past six dropped).
FracVal(m, ie, fe) ==
  LET dg(i) == IF ie + i < fe THEN DigitVal(m[ie + i]) ELSE 0
  IN dg(1) * 100000 + dg(2) * 10000 + dg(3) * 1000 + dg(4) * 100 + dg(5) * 10 + dg(6)

\* A whole part of more than three digits is held as MaxWhole: as a length
\* it lies outside every buffer, and pickle writes no such number here.
WholeVal(m, d, ie) == IF ie - d > 3 THEN MaxWhole ELSE DigitsVal(m, d, ie, 10)

\* The result of strtod once its scan is known: p the start, neg the sign,
\* d the first digit, ie the end of the whole part, fe the end of the scan.
StrtodResult(m, p, neg, d, ie, fe) ==
  IF ie > d \/ fe > ie + 1
  THEN [end |-> fe, reach |-> fe,
        val |-> (IF neg THEN -1 ELSE 1) * (WholeVal(m, d, ie) * Million + FracVal(m, ie, fe))]
  ELSE [end |-> p, reach |-> fe, val |-> 0]

StrtodWhole(m, p, neg, d, ie) ==
  StrtodResult(m, p, neg, d, ie, IF At(m, ie) = "." THEN RunEnd(m, ie + 1, Digits) ELSE ie)

StrtodSign(m, p, s) ==
  IF At(m, s) \in {"-", "+"}
  THEN StrtodWhole(m, p, At(m, s) = "-", s + 1, RunEnd(m, s + 1, Digits))
  ELSE StrtodWhole(m, p, FALSE, s, RunEnd(m, s, Digits))

\* strtod(m + p, &end): white space, an optional sign, digits with an
\* optional point.  end = p when nothing converts.  reach is the last index
\* the scan read.  (Exponents, hex floats, "inf" and "nan" need bytes that
\* the buffers of this model never hold next to each other.)
Strtod(m, p) == StrtodSign(m, p, SkipSpace(m, p))

StrtolResult(m, p, neg, d, e, base) ==
  IF e > d
  THEN [end |-> e, reach |-> e, val |-> (IF neg THEN -1 ELSE 1) * DigitsVal(m, d, e, base)]
  ELSE [end |-> p, reach |-> e, val |-> 0]

\* Base 0: octal after a leading "0", decimal otherwise (a hex prefix needs
\* the byte "x", which no buffer of this model holds).
StrtolDigits(m, p, neg, d) ==
  IF At(m, d) = "0"
  THEN StrtolResult(m, p, neg, d, RunEnd(m, d, OctDigits), 8)
  ELSE StrtolResult(m, p, neg, d, RunEnd(m, d, Digits), 10)

StrtolSign(m, p, s) ==
  IF At(m, s) \in {"-", "+"} THEN StrtolDigits(m, p, At(m, s) = "-", s + 1)
  ELSE StrtolDigits(m, p, FALSE, s)

\* strtol(m + p, &end, 0)
Strtol(m, p) == StrtolSign(m, p, SkipSpace(m, p))

\* strlen(): the number of bytes before the first zero byte.
RECURSIVE Strlen(_)
Strlen(s) == IF s = <<>> \/ Head(s) = NUL THEN 0 ELSE 1 + Strlen(Tail(s))

(***************************************************************************)
(* Lua values.                                                             *)
(***************************************************************************)
Nil == [t |-> "nil"]
Num(n) == [t |-> "number", n |-> n]
Bool(b) == [t |-> "boolean", b |-> b]
Str(s) == [t |-> "string", s |-> s]
Tab(e) == [t |-> "table", e |-> e]
EmptyTable == Tab(<<>>)
Fn(f) == [t |-> "function", f |-> f]
\* A userdata holds a lid; lo is what LuaObjectBase::Lookup finds for it:
\* "NULL" when the object no longer exists, else the class Isa answers to.
BodyRef(o) == [t |-> "userdata", lo |-> "Body", obj |-> o]
PathRef(p) == [t |-> "userdata", lo |-> "SBodyPath", path |-> p]
DeadRef == [t |-> "userdata", lo |-> "NULL"]
OtherRef == [t |-> "userdata", lo |-> "Other"]

\* lua_rawset / lua_settable without metamethods: t[k] = v.
RawSet(tab, k, v) ==
  Tab([y \in DOMAIN tab.e \cup {k} |-> IF y = k THEN v ELSE tab.e[y]])

(***************************************************************************)
(* The identity table of live bodies.  Index i holds the object BodyAt(i); *)
(* an object is told from its index by its kind and its rank in that kind. *)
(***************************************************************************)
PushKinds == <<"BODY", "SHIP", "SPACESTATION", "PLANET", "STAR", "PLAYER">>
KindSeq == PushKinds \o <<"OTHER">>
NULL == [kind |-> "NULL"]
BodyAt(i) == [kind |-> KindSeq[(i % Len(KindSeq)) + 1], nth |-> i \div Len(KindSeq)]
Bodies == {BodyAt(i) : i \in 0..(NumBodies - 1)}

\* Serializer::LookupBody(int): the object of an index, NULL when not found.
LookupBody(n) == IF n \in 0..(NumBodies - 1) THEN BodyAt(n) ELSE NULL
\* Serializer::LookupBody(Body*): the index of a live object.
LookupBodyIndex(b) == CHOOSE i \in 0..(NumBodies - 1) : BodyAt(i) = b

(***************************************************************************)
(* pickle                                                                  *)
(***************************************************************************)
BodyLiteral == <<"B", "o", "d", "y">>
PathLiteral == <<"S", "B", "o", "d", "y", "P", "a", "t", "h">>

\* lua_next visits the entries of a table in an order of its own; the model
\* fixes one order per table.
RECURSIVE KeyOrder(_)
KeyOrder(ks) ==
  IF ks = {} THEN <<>>
  ELSE LET k == CHOOSE y \in ks : TRUE IN <<k>> \o KeyOrder(ks \ {k})

\* case LUA_TNUMBER
PickleNumber(v) == <<"f">> \o FmtF(v.n) \o <<NL>>

\* case LUA_TBOOLEAN
PickleBoolean(v) == <<"b">> \o (IF v.b THEN <<"1">> ELSE <<"0">>)

\* case LUA_TSTRING: the length is strlen of the C string and the payload is
\* appended as a C string, so both stop at the first zero byte.
PickleString(v) ==
  LET n == Strlen(v.s) IN <<"s">> \o Dec(n) \o <<NL>> \o SubSeq(v.s, 1, n)

\* A Body written with the length of its type name first.
PickleBodyCounted(n) == <<"4", NL>> \o BodyLiteral \o <<NL>> \o Dec(n) \o <<NL>>
\* The bytes after "u" for a Body with stable id n.
PickleBody(n) == BodyLiteral \o <<NL>> \o Dec(n) \o <<NL>>

\* The bytes after "u" for an SBodyPath.
PicklePath(p) ==
  PathLiteral \o <<NL>> \o Dec(p[1]) \o <<NL>> \o Dec(p[2]) \o <<NL>>
              \o Dec(p[3]) \o <<NL>> \o Dec(p[4]) \o <<NL>>

\* case LUA_TUSERDATA.  err names the Error() call that ended the process.
PickleUserdata(v) ==
  CASE v.lo = "NULL" -> [out |-> <<"u">>, err |-> "no longer exists", temps |-> <<>>]
    [] v.lo = "SBodyPath" -> [out |-> <<"u">> \o PicklePath(v.path), err |-> "none", temps |-> <<>>]
    [] v.lo = "Body" -> [out |-> <<"u">> \o PickleBody(LookupBodyIndex(v.obj)), err |-> "none", temps |-> <<>>]
    [] OTHER -> [out |-> <<"u">>, err |-> "unsupported userdata", temps |-> <<>>]

\* pickle(l, idx, out, key).  keyed says whether key is non-NULL.  The result
\* holds the bytes appended to out, the Error() raised if any, and the values
\* the call has left on the Lua stack above its entry depth.
RECURSIVE Pickle(_, _)
RECURSIVE PickleEntries(_, _, _)
Pickle(v, keyed) ==
  CASE v.t = "nil" -> [out |-> <<>>, err |-> "none", temps |-> <<>>]
    [] v.t = "number" -> [out |-> PickleNumber(v), err |-> "none", temps |-> <<>>]
    [] v.t = "boolean" -> [out |-> PickleBoolean(v), err |-> "none", temps |-> <<>>]
    [] v.t = "string" -> [out |-> PickleString(v), err |-> "none", temps |-> <<>>]
    [] v.t = "table" ->
         LET r == PickleEntries(v, KeyOrder(DOMAIN v.e), keyed)
         IN IF r.err # "none"
            THEN [out |-> <<"t">> \o r.out, err |-> r.err, temps |-> <<v>> \o r.temps]
            ELSE [out |-> <<"t">> \o r.out \o <<"n">>, err |-> "none", temps |-> <<>>]
    [] v.t = "userdata" -> PickleUserdata(v)
    [] OTHER -> [out |-> <<>>, err |-> "unsupported type", temps |-> <<>>]

\* The while (lua_next(l, -2)) loop over the entries named by order.
PickleEntries(v, order, keyed) ==
  IF order = <<>> THEN [out |-> <<>>, err |-> "none", temps |-> <<>>]
  ELSE LET k == Head(order)
           val == v.e[k]
           \* with key == NULL a copy of the Lua key is pushed and converted
           copy == IF keyed THEN <<>> ELSE <<k>>
           sub == keyed \/ k.t \in {"string", "number"}
           rk == Pickle(k, sub)
           rv == Pickle(val, sub)
           rest == PickleEntries(v, Tail(order), keyed)
       IN IF rk.err # "none"
          THEN [out |-> rk.out, err |-> rk.err, temps |-> <<k, val>> \o copy \o rk.temps]
          ELSE IF rv.err # "none"
          THEN [out |-> rk.out \o rv.out, err |-> rv.err,
                temps |-> <<k, val>> \o copy \o rv.temps]
          ELSE [out |-> rk.out \o rv.out \o rest.out, err |-> rest.err, temps |-> rest.temps]

(***************************************************************************)
(* unpickle: one production read from memory m at index p (1-based; the C  *)
(* cursor is p - 1).  A result has a kind:                                 *)
(*   "push"     a value was pushed and the cursor moved to pos             *)
(*   "open"     case 't' pushed a new table and entered its loop           *)
(*   "corrupt"  SavedGameCorruptException was thrown                       *)
(*   "neglen"   lua_pushlstring was given a negative length                *)
(*   "null"     GetType was called through a NULL Body pointer             *)
(*   "segv"     a read left the mapped memory                              *)
(* and reach, the highest index it read.                                   *)
(***************************************************************************)
Corrupt(reach) == [kind |-> "corrupt", val |-> Nil, pos |-> 0, reach |-> reach]
Push(v, pos, reach) == [kind |-> "push", val |-> v, pos |-> pos, reach |-> reach]

\* case 'f'
NumberFrom(p, r) ==
  IF r.end = p THEN Corrupt(r.reach) ELSE Push(Num(r.val), r.end + 1, r.reach)
UnpickleNumber(m, p) == NumberFrom(p, Strtod(m, p))

\* case 'b'
UnpickleBoolean(m, p) ==
  IF At(m, p) \notin {"0", "1"} THEN Corrupt(p) ELSE Push(Bool(At(m, p) = "1"), p + 1, p)

\* case 's' after the length len was parsed; end is the first payload byte.
\* The declared length is trusted as parsed.
StringFrom(m, end, len, reach) ==
  IF len < 0 THEN [kind |-> "neglen", val |-> Str(<<>>), pos |-> end + len, reach |-> reach]
  ELSE Push(Str([i \in 1..len |-> At(m, end + i - 1)]), end + len, Max(reach, end + len - 1))

\* case 's'
StringLength(m, p, r) ==
  IF r.end = p THEN Corrupt(r.reach) ELSE StringFrom(m, r.end + 1, TruncToInt(r.val), r.reach)
UnpickleString(m, p) == StringLength(m, p, Strtod(m, p))

\* strchr(m + p, '\n'): where the first newline is, unless the string ends
\* first.
RECURSIVE Strchr(_, _)
Strchr(m, i) ==
  IF At(m, i) = NL THEN [found |-> TRUE, at |-> i]
  ELSE IF At(m, i) \in {NUL, OOB} THEN [found |-> FALSE, at |-> i]
  ELSE Strchr(m, i + 1)

\* The SBodyPath branch of case 'u': four integers, each checked and each
\* followed by one skipped byte.  got holds the integers read so far.
RECURSIVE PathInts(_, _, _, _)
PathNext(m, q, got, reach, r) ==
  IF r.end = q THEN Corrupt(Max(reach, r.reach))
  ELSE PathInts(m, r.end + 1, got \o <<r.val>>, Max(reach, r.reach))
PathInts(m, q, got, reach) ==
  IF Len(got) = 4 THEN Push(PathRef(got), q, reach)
  ELSE PathNext(m, q, got, reach, Strtol(m, q))
UnpicklePath(m, q) == PathInts(m, q, <<>>, q)

\* The test made on the result of Serializer::LookupBody before the object
\* is used.  The code compares pos with end, which it has just set to differ.
BodyCheckFails(body, pos, end) == pos = end

\* The switch on body->GetType().
BodySwitch(body, pos, reach) ==
  IF body = NULL THEN [kind |-> "null", val |-> BodyRef(NULL), pos |-> pos, reach |-> reach]
  ELSE IF \E i \in 1..Len(PushKinds) : PushKinds[i] = body.kind
  THEN Push(BodyRef(body), pos, reach)
  ELSE Corrupt(reach)

\* The Body branch of case 'u'.
BodyFrom(q, r) ==
  IF r.end = q THEN Corrupt(r.reach)
  ELSE IF BodyCheckFails(LookupBody(r.val), r.end + 1, r.end) THEN Corrupt(r.reach)
  ELSE BodySwitch(LookupBody(r.val), r.end + 1, r.reach)
UnpickleBody(m, q) == BodyFrom(q, Strtol(m, q))

\* case 'u'
UserdataKind(m, p, nl) ==
  IF ~nl.found THEN Corrupt(nl.at)
  ELSE IF [i \in 1..(nl.at - p) |-> m[p + i - 1]] = PathLiteral THEN UnpicklePath(m, nl.at + 1)
  ELSE IF [i \in 1..(nl.at - p) |-> m[p + i - 1]] = BodyLiteral THEN UnpickleBody(m, nl.at + 1)
  ELSE Corrupt(nl.at)
UnpickleUserdata(m, p) == UserdataKind(m, p, Strchr(m, p))

\* The switch on the tag byte at p.
UnpickleSwitch(m, p) ==
  CASE At(m, p) = "f" -> UnpickleNumber(m, p + 1)
    [] At(m, p) = "b" -> UnpickleBoolean(m, p + 1)
    [] At(m, p) = "s" -> UnpickleString(m, p + 1)
    [] At(m, p) = "t" -> [kind |-> "open", val |-> EmptyTable, pos |-> p + 1, reach |-> p]
    [] At(m, p) = "u" -> UnpickleUserdata(m, p + 1)
    [] OTHER -> Corrupt(p)

\* A read outside the mapped memory is a fault, not a result.
Mapped(m, p, r) ==
  IF Max(p, r.reach) > Len(m) \/ p < 1 \/ (r.kind # "corrupt" /\ r.pos < 1)
  THEN [kind |-> "segv", val |-> Nil, pos |-> 0, reach |-> Max(p, r.reach)]
  ELSE [kind |-> r.kind, val |-> r.val, pos |-> r.pos, reach |-> Max(p, r.reach)]

\* One production read at index p.
Production(m, p) == Mapped(m, p, UnpickleSwitch(m, p))

(***************************************************************************)
(* The values and buffers the model draws its inputs from.                 *)
(***************************************************************************)
TextBytes == {"A", "B", NUL, NL}
Texts == UNION {[1..n -> TextBytes] : n \in 0..MaxTextLen}
Payloads == {<<>>, <<"A">>, <<"A", "B">>}
Numbers == {0, Million, -2500000, 12000001}
Scalars == {Num(n) : n \in Numbers} \cup {Bool(b) : b \in BOOLEAN} \cup {Str(s) : s \in Texts}
Refs == {BodyRef(o) : o \in Bodies} \cup {PathRef(<<3, -7, 12, 5>>), PathRef(<<0, 0, 0, 0>>)}
Unsupported == {DeadRef, OtherRef, Fn("f")}

ModuleKeys == {<<"A">>, <<"B">>}
KeyA == Str(<<"A">>)
KeyB == Str(<<"B">>)

\* What a save callback may return.
ModuleValues ==
  {Nil, EmptyTable, Tab(KeyA :> Num(Million)), Tab(KeyB :> BodyRef(BodyAt(1))),
   Tab(KeyA :> Tab(KeyB :> DeadRef))}

Leaves == Scalars \cup Refs \cup Unsupported
FlatTables ==
  {Tab(Num(0) :> v) : v \in Leaves} \cup {Tab(Str(s) :> Bool(TRUE)) : s \in Texts}
    \cup {Tab(Bool(FALSE) :> Bool(TRUE) @@ Str(<<NL>>) :> Num(0))}
TopTables ==
  UNION {[ks -> {v \in ModuleValues : v # Nil /\ Pickle(v, FALSE).err = "none"}]
         : ks \in SUBSET {KeyA, KeyB}}
Values == {Nil} \cup Leaves \cup FlatTables \cup {Tab(e) : e \in TopTables}

NoValue == [t |-> "none"]

\* Buffers that pickle wrote, with the value each was written for.
PickledInputs ==
  {[blob |-> Pickle(v, FALSE).out, src |-> v] : v \in {w \in Values : Pickle(w, FALSE).err = "none"}}

\* String productions whose declared length need not match the payload,
\* alone and as the first key of a table.
BadLengths ==
  LET prod(n, s) == <<"s">> \o Dec(n) \o <<NL>> \o s
  IN UNION {{prod(n, s), <<"t">> \o prod(n, s), <<"t">> \o prod(n, s) \o <<"b", "1", "n">>,
             <<"t", "t">> \o prod(n, s)}
            : n \in (-MaxBadLen)..MaxBadLen, s \in Payloads}

\* Body references to indexes around the end of the identity table.
BadBodies ==
  UNION {{<<"u">> \o PickleBody(n), <<"t", "b", "1", "u">> \o PickleBody(n) \o <<"n">>}
         : n \in {-1, 8, NumBodies - 1, NumBodies, NumBodies + 1}}

\* Written buffers with one byte replaced, or cut short, or with a byte added.
MutBytes == {"n", "s", "u", "9", "-", NL, NUL, "A"}
MutBase ==
  {Pickle(v, FALSE).out :
     v \in {Num(Million), Tab(KeyA :> Bool(TRUE)), BodyRef(BodyAt(1)),
            Tab(KeyA :> EmptyTable @@ KeyB :> PathRef(<<3, -7, 12, 5>>))}}
Mutations ==
  UNION {{[j \in 1..Len(b) |-> IF j = i THEN c ELSE b[j]] : i \in 1..Len(b), c \in MutBytes}
         \cup {SubSeq(b, 1, i) : i \in 0..(Len(b) - 1)}
         \cup {b \o <<c>> : c \in MutBytes}
         : b \in MutBase}

CorruptInputs == {[blob |-> b, src |-> NoValue] : b \in BadLengths \cup BadBodies \cup Mutations}

\* What may lie in memory after the buffer's terminating zero byte.
GarbageBytes == {"n", "A"}
Tails == [1..MaxOverrun -> GarbageBytes]

\* The callbacks a module may pass to Register; Nil stands for a missing one.
SaveFns == {Fn("save1"), Fn("save2")}
LoadFns == {Fn("load1"), Fn("load2")}
RegisterArgs == {<<Fn("save1"), Fn("load1")>>, <<Fn("save2"), Fn("load2")>>,
                 <<Nil, Fn("load1")>>, <<Fn("save1"), Nil>>}

\* The Lua stack slots the model lets a call use.
MaxStack == 8

(***************************************************************************)
(* State.                                                                  *)
(***************************************************************************)
VARIABLES
  pc,         \* where the program is: between calls, inside one, or how the last ended
  callbacks,  \* registry field PiSerializerCallbacks: key -> <<save, load>>
  lstack,     \* the Lua stack above the depth at which the current call was entered
  pickled,    \* Unserialize: the buffer read from the reader
  heap,       \* the bytes after the buffer's terminator, once a read has reached them
  pos,        \* unpickle: the cursor, as a 1-based index
  frames,     \* unpickle: one entry per active case 't' loop, "key" or "val" awaited
  src,        \* history: the value the buffer was pickled from, if any
  loadlog,    \* history: the load callbacks called by Unserialize, with their argument
  saved,      \* history: what the last Serialize built, wrote and called
  orphans,    \* history: entries the last Unserialize decoded for unregistered modules
  first,      \* history: the callbacks each key was first registered with
  reg,        \* history: the key and callbacks of the last Register call, and its error
  raised      \* history: the function that threw SavedGameCorruptException

vars == <<pc, callbacks, lstack, pickled, heap, pos, frames, src, loadlog, saved,
          orphans, first, reg, raised>>

NoReg == [err |-> "none"]
NoSave == [table |-> Nil, out |-> <<>>, fns |-> {}]
Ready == {"idle", "registered", "regerror", "saved", "loaded"}

Init ==
  /\ pc = "idle"
  /\ callbacks = <<>>
  /\ lstack = <<>>
  /\ pickled = <<>>
  /\ heap = <<>>
  /\ pos = 1
  /\ frames = <<>>
  /\ src = NoValue
  /\ loadlog = <<>>
  /\ saved = NoSave
  /\ orphans = <<>>
  /\ first = <<>>
  /\ reg = NoReg
  /\ raised = "none"

(***************************************************************************)
(* Register                                                                *)
(***************************************************************************)
\* l_register without the already-registered test.
RegisterOverwrite(cbs, key, a3, a4) ==
  IF a3.t # "function" \/ a4.t # "function" THEN [err |-> "typerror", cbs |-> cbs]
  ELSE [err |-> "none", cbs |-> [k \in DOMAIN cbs \cup {key} |-> IF k = key THEN <<a3, a4>> ELSE cbs[k]]]

\* l_register: the error it raises and the registry it leaves.
LRegister(cbs, key, a3, a4) ==
  IF a3.t # "function" \/ a4.t # "function" THEN [err |-> "typerror", cbs |-> cbs]
  ELSE IF key \in DOMAIN cbs THEN [err |-> "already registered", cbs |-> cbs]
  ELSE [err |-> "none", cbs |-> [k \in DOMAIN cbs \cup {key} |-> IF k = key THEN <<a3, a4>> ELSE cbs[k]]]

Register(key, args) ==
  /\ pc \in Ready
  /\ \E r \in {LRegister(callbacks, key, args[1], args[2])} :
     /\ r.err = "none"
     /\ callbacks' = r.cbs
     /\ first' = IF key \in DOMAIN first THEN first
                 ELSE [k \in DOMAIN first \cup {key} |-> IF k = key THEN args ELSE first[k]]
     /\ pc' = "registered"
     /\ reg' = [key |-> key, args |-> args, err |-> "none"]
     /\ orphans' = <<>>
     /\ saved' = NoSave
     /\ loadlog' = <<>>
     /\ UNCHANGED <<lstack, pickled, heap, pos, frames, src, raised>>

RegisterError(key, args) ==
  /\ pc \in Ready
  /\ \E r \in {LRegister(callbacks, key, args[1], args[2])} :
     /\ r.err # "none"
     /\ callbacks' = r.cbs
     /\ pc' = "regerror"
     /\ reg' = [key |-> key, args |-> args, err |-> r.err]
     /\ orphans' = <<>>
     /\ saved' = NoSave
     /\ loadlog' = <<>>
     /\ UNCHANGED <<first, lstack, pickled, heap, pos, frames, src, raised>>

(***************************************************************************)
(* Serialize                                                               *)
(***************************************************************************)
\* The table Serialize fills: a new table, with the value each registered
\* save callback returned stored under its key (storing nil stores nothing).
SaveTable(cbs, rets) ==
  Tab([k \in {Str(key) : key \in {c \in DOMAIN cbs : rets[c] # Nil}} |-> rets[k.s]])

Serialize(rets) ==
  /\ pc \in Ready
  /\ \E savetable \in {SaveTable(callbacks, rets)} : \E r \in {Pickle(savetable, FALSE)} :
     /\ r.err = "none"
     /\ saved' = [table |-> savetable, out |-> r.out,
                  fns |-> {callbacks[k][1] : k \in DOMAIN callbacks}]
     /\ lstack' = lstack \o r.temps
     /\ pc' = "saved"
     /\ loadlog' = <<>>
     /\ reg' = NoReg
     /\ UNCHANGED <<callbacks, pickled, heap, pos, frames, src, orphans, first, raised>>

\* pickle ended the process in Error(); the stack is as pickle left it.
SerializeFatal(rets) ==
  /\ pc \in Ready
  /\ \E savetable \in {SaveTable(callbacks, rets)} : \E r \in {Pickle(savetable, FALSE)} :
     /\ r.err # "none"
     /\ saved' = [table |-> savetable, out |-> r.out,
                  fns |-> {callbacks[k][1] : k \in DOMAIN callbacks}]
     /\ lstack' = lstack \o <<savetable>> \o r.temps
     /\ pc' = "fatal"
     /\ loadlog' = <<>>
     /\ reg' = NoReg
     /\ UNCHANGED <<callbacks, pickled, heap, pos, frames, src, orphans, first, raised>>

(***************************************************************************)
(* Unserialize, with unpickle run one production at a time.                *)
(***************************************************************************)
UnserializeBegin(inp) ==
  /\ pc \in Ready
  /\ pickled' = inp.blob
  /\ src' = inp.src
  /\ pos' = 1
  /\ frames' = <<>>
  /\ heap' = <<>>
  /\ pc' = "unpickle"
  /\ loadlog' = <<>>
  /\ orphans' = <<>>
  /\ saved' = NoSave
  /\ reg' = NoReg
  /\ UNCHANGED <<callbacks, lstack, first, raised>>

\* pickled.c_str() followed by what lies after it in memory.
Memory(g) == pickled \o <<NUL>> \o g
Defined == Len(pickled) + 1
TailChoices == IF heap = <<>> THEN Tails ELSE {heap}

\* The loop test of case 't' is made when a key is awaited.
AtLoopTest == frames # <<>> /\ frames[Len(frames)] = "key"

\* What unpickle does next at the cursor: leave the loop of case 't' on "n",
\* or read one production.
NextStep(m) ==
  IF AtLoopTest /\ At(m, pos) = "n"
  THEN [kind |-> "close", val |-> Nil, pos |-> pos + 1, reach |-> pos]
  ELSE Production(m, pos)

\* unpickle returned a value on top of stack st: to Unserialize when no loop
\* is active, else as the key or the value of the innermost loop, where a
\* value completes the pair and lua_rawset stores it.
Deliver(st, fr) ==
  IF fr = <<>> THEN [stack |-> st, frames |-> fr, done |-> TRUE]
  ELSE IF fr[Len(fr)] = "key"
  THEN [stack |-> st, frames |-> [fr EXCEPT ![Len(fr)] = "val"], done |-> FALSE]
  ELSE [stack |-> SubSeq(st, 1, Len(st) - 3)
                  \o <<RawSet(st[Len(st) - 2], st[Len(st) - 1], st[Len(st)])>>,
        frames |-> [fr EXCEPT ![Len(fr)] = "key"], done |-> FALSE]

Touched(r) == r.reach > Defined

\* cases 'f', 'b', 's', 'u': a value is pushed.
UnpicklePush(g) ==
  /\ pc = "unpickle"
  /\ Len(lstack) < MaxStack
  /\ \E r \in {NextStep(Memory(g))} :
     /\ r.kind = "push"
     /\ \E d \in {Deliver(lstack \o <<r.val>>, frames)} :
        /\ lstack' = d.stack
        /\ frames' = d.frames
        /\ pos' = r.pos
        /\ pc' = IF d.done THEN "returned" ELSE "unpickle"
        /\ heap' = IF Touched(r) THEN g ELSE heap
        /\ UNCHANGED <<callbacks, pickled, src, loadlog, saved, orphans, first, reg, raised>>

\* case 't': lua_newtable, then the loop.
UnpickleTable(g) ==
  /\ pc = "unpickle"
  /\ \E r \in {NextStep(Memory(g))} :
     /\ r.kind = "open"
     /\ Len(lstack) < MaxStack
     /\ lstack' = lstack \o <<EmptyTable>>
     /\ frames' = frames \o <<"key">>
     /\ pos' = r.pos
     /\ heap' = IF Touched(r) THEN g ELSE heap
     /\ UNCHANGED <<pc, callbacks, pickled, src, loadlog, saved, orphans, first, reg, raised>>

\* case 't': the loop ends on "n"; the table is the value returned.
UnpickleTableEnd(g) ==
  /\ pc = "unpickle"
  /\ \E r \in {NextStep(Memory(g))} :
     /\ r.kind = "close"
     /\ \E d \in {Deliver(lstack, SubSeq(frames, 1, Len(frames) - 1))} :
        /\ lstack' = d.stack
        /\ frames' = d.frames
        /\ pos' = r.pos
        /\ pc' = IF d.done THEN "returned" ELSE "unpickle"
        /\ heap' = IF Touched(r) THEN g ELSE heap
        /\ UNCHANGED <<callbacks, pickled, src, loadlog, saved, orphans, first, reg, raised>>

\* throw SavedGameCorruptException() inside unpickle.
UnpickleThrow(g) ==
  /\ pc = "unpickle"
  /\ \E r \in {NextStep(Memory(g))} :
     /\ r.kind = "corrupt"
     /\ pc' = "corrupt"
     /\ raised' = "unpickle"
     /\ heap' = IF Touched(r) THEN g ELSE heap
     /\ UNCHANGED <<callbacks, lstack, pickled, pos, frames, src, loadlog, saved,
                    orphans, first, reg>>

\* Undefined behaviour that ends the process: a read past the buffer's
\* terminator or outside mapped memory, lua_pushlstring with a negative
\* length, GetType through a NULL pointer, a push on a full Lua stack.
UndefinedAbort(g) ==
  /\ pc = "unpickle"
  /\ \E r \in {NextStep(Memory(g))} :
     /\ \/ r.kind \in {"segv", "neglen", "null"}
        \/ Touched(r)
        \/ r.kind \in {"push", "open"} /\ Len(lstack) >= MaxStack
     /\ pc' = "aborted"
     /\ UNCHANGED <<callbacks, lstack, pickled, heap, pos, frames, src, loadlog, saved,
                    orphans, first, reg, raised>>

\* Undefined behaviour that goes on: lua_pushlstring with a negative length
\* returns with some string pushed and the cursor moved by that length;
\* GetType through a NULL pointer yields a kind the switch pushes.
UndefinedPush(g) ==
  /\ pc = "unpickle"
  /\ Len(lstack) < MaxStack
  /\ \E r \in {NextStep(Memory(g))} :
     /\ r.kind \in {"neglen", "null"}
     /\ \E d \in {Deliver(lstack \o <<r.val>>, frames)} :
        /\ lstack' = d.stack
        /\ frames' = d.frames
        /\ pos' = r.pos
        /\ pc' = IF d.done THEN "returned" ELSE "unpickle"
        /\ heap' = IF Touched(r) THEN g ELSE heap
        /\ UNCHANGED <<callbacks, pickled, src, loadlog, saved, orphans, first, reg, raised>>

\* GetType through a NULL pointer yields a kind the switch does not list.
UndefinedThrow(g) ==
  /\ pc = "unpickle"
  /\ \E r \in {NextStep(Memory(g))} :
     /\ r.kind = "null"
     /\ pc' = "corrupt"
     /\ raised' = "unpickle"
     /\ heap' = IF Touched(r) THEN g ELSE heap
     /\ UNCHANGED <<callbacks, lstack, pickled, pos, frames, src, loadlog, saved,
                    orphans, first, reg>>

\* Unserialize without the test of the cursor against the blob's length.
TopLevelNoLength(endpos, blob, top) == top.t = "table"

\* The two tests Unserialize makes on what unpickle returned.
TopLevelOk(endpos, blob, top) == endpos - 1 = Len(blob) /\ top.t = "table"

\* The load callback's argument without the replacement of nil by a table.
LoadArgNil(savetable, key) ==
  IF Str(key) \in DOMAIN savetable.e THEN savetable.e[Str(key)] ELSE Nil

\* The argument Unserialize passes to the load callback of key.
LoadArg(savetable, key) ==
  IF Str(key) \in DOMAIN savetable.e THEN savetable.e[Str(key)] ELSE EmptyTable

\* The calls the loop over the registry makes, in lua_next order.
LoadCalls(cbs, savetable) ==
  LET order == KeyOrder(DOMAIN cbs)
  IN [i \in 1..Len(order) |->
        [key |-> order[i], fn |-> cbs[order[i]][2], arg |-> LoadArg(savetable, order[i])]]

\* unpickle returned, and one of the two tests failed.
UnserializeThrow ==
  /\ pc = "returned"
  /\ ~TopLevelOk(pos, pickled, lstack[Len(lstack)])
  /\ pc' = "corrupt"
  /\ raised' = "Unserialize"
  /\ UNCHANGED <<callbacks, lstack, pickled, heap, pos, frames, src, loadlog, saved,
                 orphans, first, reg>>

\* The load callbacks are called and Unserialize returns; its locals are gone.
UnserializeEnd ==
  LET savetable == lstack[Len(lstack)]
  IN /\ pc = "returned"
     /\ TopLevelOk(pos, pickled, savetable)
     /\ loadlog' = LoadCalls(callbacks, savetable)
     /\ orphans' = [k \in {Str(key) : key \in ModuleKeys \ DOMAIN callbacks}
                                \cap DOMAIN savetable.e |-> savetable.e[k]]
     /\ lstack' = SubSeq(lstack, 1, Len(lstack) - 1)
     /\ pc' = "loaded"
     /\ pickled' = <<>>
     /\ heap' = <<>>
     /\ pos' = 1
     /\ src' = NoValue
     /\ UNCHANGED <<callbacks, frames, saved, first, reg, raised>>

Next ==
  \/ \E key \in ModuleKeys, args \in RegisterArgs : Register(key, args)
  \/ \E key \in ModuleKeys, args \in RegisterArgs : RegisterError(key, args)
  \/ \E rets \in [DOMAIN callbacks -> ModuleValues] : Serialize(rets)
  \/ \E rets \in [DOMAIN callbacks -> ModuleValues] : SerializeFatal(rets)
  \/ \E inp \in PickledInputs : UnserializeBegin(inp)
  \/ \E inp \in CorruptInputs : UnserializeBegin(inp)
  \/ pc = "saved" /\ UnserializeBegin([blob |-> saved.out, src |-> saved.table])
  \/ \E g \in TailChoices : UnpicklePush(g)
  \/ \E g \in TailChoices : UnpickleTable(g)
  \/ \E g \in TailChoices : UnpickleTableEnd(g)
  \/ \E g \in TailChoices : UnpickleThrow(g)
  \/ \E g \in TailChoices : UndefinedAbort(g)
  \/ \E g \in TailChoices : UndefinedPush(g)
  \/ \E g \in TailChoices : UndefinedThrow(g)
  \/ UnserializeThrow
  \/ UnserializeEnd

Spec == Init /\ [][Next]_vars

(***************************************************************************)
(* Properties.                                                             *)
(***************************************************************************)
Top == lstack[Len(lstack)]
Finished == pc \in {"returned", "corrupt", "aborted"}

\* v is a number, a boolean, a text, or a table built from such values.
RECURSIVE Plain(_)
Plain(v) ==
  CASE v.t \in {"number", "boolean", "string"} -> TRUE
    [] v.t = "table" -> \A k \in DOMAIN v.e : Plain(k) /\ Plain(v.e[k])
    [] OTHER -> FALSE

\* v holds a text with a zero byte in it.
RECURSIVE HasNul(_)
HasNul(v) ==
  CASE v.t = "string" -> \E i \in DOMAIN v.s : v.s[i] = NUL
    [] v.t = "table" -> \E k \in DOMAIN v.e : HasNul(k) \/ HasNul(v.e[k])
    [] OTHER -> FALSE

\* C1: unpickle of the bytes pickle wrote for a value without object
\* references ends by returning, at the end of those bytes, a value equal to
\* the one pickled, texts with zero bytes and newlines included.
C1_RoundTrip ==
  (Finished /\ raised # "Unserialize" /\ src # NoValue /\ Plain(src))
    => (pc = "returned" /\ lstack = <<src>> /\ pos - 1 = Len(pickled))

\* The same for the values whose texts hold no zero byte.
RoundTripWithoutNul ==
  (Finished /\ raised # "Unserialize" /\ src # NoValue /\ Plain(src) /\ ~HasNul(src))
    => (pc = "returned" /\ lstack = <<src>> /\ pos - 1 = Len(pickled))

\* C2: with ModuleA registered and ModuleB not, a Serialize made right after
\* an Unserialize that decoded an entry for ModuleB builds and writes a table
\* that still holds that entry, unchanged.
C2_OrphanPreserved ==
  (pc = "saved" /\ DOMAIN callbacks = {<<"A">>} /\ KeyB \in DOMAIN orphans)
    => (KeyB \in DOMAIN saved.table.e /\ saved.table.e[KeyB] = orphans[KeyB])

\* The cursor is at a string production, inside the buffer, whose declared
\* length is greater than the number of bytes left after its newline.
ShortStringAtCursor ==
  /\ pc = "unpickle"
  /\ pos <= Len(pickled)
  /\ pickled[pos] = "s"
  /\ \E r \in {Strtod(Memory(<<>>), pos + 1)} :
       r.end # pos + 1 /\ r.end <= Len(pickled) /\ TruncToInt(r.val) > Len(pickled) - r.end

\* C3: unpickle of a string production that declares more bytes than the
\* buffer has left raises the corruption condition; it pushes no text and
\* does not move the cursor.
C3_ShortStringIsCorrupt ==
  [][ShortStringAtCursor => (pc' = "corrupt" /\ lstack' = lstack /\ pos' = pos)]_vars

\* The cursor is at a Body reference whose id LookupBody does not find.
UnresolvedBodyAtCursor ==
  /\ pc = "unpickle"
  /\ \E r \in {UnpickleSwitch(Memory(<<>>), pos)} :
       r.kind = "null" /\ r.reach <= Defined

\* C4: unpickle of a Body reference whose id does not resolve raises the
\* corruption condition and pushes nothing.
C4_UnresolvedBodyIsCorrupt ==
  [][UnresolvedBodyAtCursor => (pc' = "corrupt" /\ raised' = "unpickle" /\ lstack' = lstack)]_vars

\* The buffer was pickled from a Body reference, and unpickle has begun.
BodyRefPickled == src # NoValue /\ src.t = "userdata" /\ src.lo = "Body" /\ pc # "loaded"
Decodable(o) == \E i \in 1..Len(PushKinds) : PushKinds[i] = o.kind

\* What C5 asks of unpickle: it returns one reference, to the object the
\* identity table holds at the pickled id, with the cursor at the end.
BodyRefDecoded ==
  (Finished /\ raised # "Unserialize")
    => /\ pc = "returned"
       /\ lstack = <<BodyRef(LookupBody(LookupBodyIndex(src.obj)))>>
       /\ pos - 1 = Len(pickled)

C6_LoadCallbacks ==
  [][(pc = "returned" /\ pc' = "loaded") =>
       /\ \A key \in DOMAIN callbacks :
            \E i \in DOMAIN loadlog' :
              /\ loadlog'[i].key = key
              /\ \A j \in DOMAIN loadlog' : loadlog'[j].key = key => j = i
              /\ loadlog'[i].fn = callbacks[key][2]
              /\ loadlog'[i].arg = IF Str(key) \in DOMAIN Top.e THEN Top.e[Str(key)]
                                   ELSE EmptyTable
       /\ \A i \in DOMAIN loadlog' : loadlog'[i].key \in DOMAIN callbacks /\ loadlog'[i].arg # Nil
    ]_vars

\* Two modules were loaded, one with its decoded value and one, having no
\* entry, with an empty table.
C6_Witness ==
  /\ pc = "loaded"
  /\ Len(loadlog) = 2
  /\ \E i, j \in DOMAIN loadlog :
       loadlog[i].arg = EmptyTable /\ loadlog[j].arg = Tab(KeyA :> Num(Million))

\* C7: when unpickle returns with the cursor not at the end of the blob, or
\* with a value that is not a table, Unserialize raises the corruption
\* condition and calls no load callback.
C7_TopLevelChecked ==
  [][(pc = "returned" /\ (pos - 1 # Len(pickled) \/ Top.t # "table"))
       => (pc' = "corrupt" /\ raised' = "Unserialize" /\ loadlog' = <<>>)]_vars

\* Unserialize threw on a table followed by leftover bytes, with a module
\* registered and none called.
C7_Witness ==
  /\ pc = "corrupt"
  /\ raised = "Unserialize"
  /\ Top.t = "table"
  /\ pos - 1 < Len(pickled)
  /\ callbacks # <<>>
  /\ loadlog = <<>>

\* C8: Register of a key already registered ends in an error and leaves the
\* registry as it was; Serialize and Unserialize call the callbacks each key
\* was first registered with.
C8_DuplicateRejected ==
  /\ [][(reg' # NoReg /\ reg'.key \in DOMAIN callbacks)
          => (pc' = "regerror" /\ reg'.err # "none" /\ callbacks' = callbacks)]_vars
  /\ [](/\ \A key \in DOMAIN callbacks : callbacks[key] = first[key]
        /\ pc = "saved" => saved.fns = {first[key][1] : key \in DOMAIN callbacks}
        /\ pc = "loaded" => \A i \in DOMAIN loadlog : loadlog[i].fn = first[loadlog[i].key][2])

\* A second registration of a key, with other callbacks, has just failed.
C8_Witness ==
  /\ pc = "regerror"
  /\ reg.err = "already registered"
  /\ callbacks[reg.key] # reg.args
  /\ callbacks[reg.key] = first[reg.key]

\* C9: a completed unpickle leaves the stack one value deeper, a completed
\* pickle leaves it as it was, and a pickle or unpickle that raises leaves it
\* at its entry depth.
C9_StackBalanced ==
  /\ pc = "returned" => Len(lstack) = 1
  /\ pc = "saved" => Len(lstack) = 0
  /\ (pc = "corrupt" /\ raised = "unpickle") => Len(lstack) = 0
  /\ pc = "fatal" => Len(lstack) = 0

\* The cursor is at a string production, inside the buffer, that declares a
\* negative length.
NegativeStringAtCursor ==
  /\ pc = "unpickle"
  /\ pos <= Len(pickled)
  /\ pickled[pos] = "s"
  /\ \E r \in {Strtod(Memory(<<>>), pos + 1)} :
       r.end # pos + 1 /\ r.end <= Len(pickled) /\ TruncToInt(r.val) < 0

\* C10: unpickle ends by returning or by raising the corruption condition,
\* and a production it decodes moves the cursor forward, also when the
\* production is a string that declares a negative length.
C10_CursorAdvances ==
  [][NegativeStringAtCursor =>
       /\ pc' \in {"unpickle", "returned", "corrupt"}
       /\ pc' # "corrupt" => pos' > pos]_vars

====
